---- MODULE Spec2Model ----
(***************************************************************************)
(* Model of open3d::t::geometry::PointCloud                                *)
(* (cpp/open3d/t/geometry/PointCloud.cpp): the attribute bundle, its       *)
(* map constructor, Transform / Translate / Scale / Rotate and             *)
(* VoxelDownSample.                                                        *)
(*                                                                         *)
(* Numbers are exact rationals <<n, d>> in lowest terms with d > 0, so     *)
(* that a mean, a quotient by the voxel size and a product are computed    *)
(* exactly; floating-point rounding is not modelled.  A quotient by zero   *)
(* is <<1, 0>>, <<-1, 0>> or <<0, 0>> (+inf, -inf, NaN).                   *)
(*                                                                         *)
(* A tensor is [shape, device, data].  A core::Tensor copy shares its      *)
(* storage with the original, so an in-place operation on a copy is        *)
(* written back to the tensor it was copied from.                          *)
(***************************************************************************)
EXTENDS Integers, Sequences, FiniteSets, TLC

\* ------------------------------------------------------------------ bounds
\* Most points in a bundle of an initial state.
MaxN == 2
\* Most calls in one behaviour.
MaxOps == 2

\* --------------------------------------------------------------- rationals
Abs(n) == IF n < 0 THEN -n ELSE n

RECURSIVE GCD(_, _)
GCD(a, b) == IF b = 0 THEN a ELSE GCD(b, a % b)

\* n / d in lowest terms, d # 0.
Norm(n, d) ==
    LET s == IF d < 0 THEN -1 ELSE 1
        g == GCD(Abs(n), Abs(d))
    IN  <<(s * n) \div g, (s * d) \div g>>

Q(n) == <<n, 1>>
IsFinite(a) == a[2] # 0

RAdd(a, b) == Norm(a[1] * b[2] + b[1] * a[2], a[2] * b[2])
RSub(a, b) == Norm(a[1] * b[2] - b[1] * a[2], a[2] * b[2])
RMul(a, b) == Norm(a[1] * b[1], a[2] * b[2])
\* IEEE division: x / 0 is an infinity of x's sign, 0 / 0 is NaN.
RDiv(a, b) ==
    IF b[1] = 0
    THEN <<(IF a[1] > 0 THEN 1 ELSE IF a[1] < 0 THEN -1 ELSE 0), 0>>
    ELSE Norm(a[1] * b[2], a[2] * b[1])

\* The largest integer not above a (a finite).
Floor(a) == a[1] \div a[2]

\* ----------------------------------------------------------------- vectors
Vec(x, y, z) == <<Q(x), Q(y), Q(z)>>
VAdd(p, q) == [k \in 1..3 |-> RAdd(p[k], q[k])]
VSub(p, q) == [k \in 1..3 |-> RSub(p[k], q[k])]
VScale(p, s) == [k \in 1..3 |-> RMul(p[k], s)]
\* R * p for a 3x3 R (rows R[1..3]) and a 3-vector p.
MatVec(R, p) ==
    [i \in 1..3 |-> RAdd(RAdd(RMul(R[i][1], p[1]), RMul(R[i][2], p[2])),
                         RMul(R[i][3], p[3]))]

RECURSIVE VSum(_, _)
VSum(rows, n) == IF n = 0 THEN Vec(0, 0, 0) ELSE VAdd(VSum(rows, n - 1), rows[n])

\* ----------------------------------------------------------------- tensors
Tensor(shape, device, data) == [shape |-> shape, device |-> device, data |-> data]
NoTensor == Tensor(<<>>, "none", <<>>)

\* Tensor::Mean({0}) of an N x 3 tensor.
Mean(t) ==
    LET n == Len(t.data)
        s == VSum(t.data, n)
    IN  Tensor(<<3>>, t.device, [k \in 1..3 |-> RDiv(s[k], Q(n))])

\* ------------------------------------------------------------------ bundle
\* A PointCloud: device_ and point_attr_ (attribute name -> N x 3 tensor).
Bundle(device, attrs) == [device_ |-> device, point_attr_ |-> attrs]
NoBundle == Bundle("none", [n \in {} |-> NoTensor])

GetPoints(self) == self.point_attr_["points"]
HasPointNormals(self) == "normals" \in DOMAIN self.point_attr_
GetPointNormals(self) == self.point_attr_["normals"]
GetCenter(self) == Mean(GetPoints(self))

\* The bundle with attribute name rebound to rows (same shape and device).
SetRows(self, name, rows) ==
    [self EXCEPT !.point_attr_[name].data = rows]

\* What a call leaves: the error it raised ("none": it returned), the bundle
\* it was called on, the caller's first tensor argument, and the bundle it
\* returned by value (NoBundle for the calls that return *this).
Outcome(err, self, arg, ret) == [err |-> err, self |-> self, arg |-> arg, ret |-> ret]

\* PointCloud(const std::unordered_map<std::string, core::Tensor>&): the
\* delegating constructor evaluates map.at("points") first, then the body
\* checks count("points"), asserts the shape {nullopt, 3} and copies the map.
PointCloudFromMap(map_keys_to_tensors) ==
    IF "points" \notin DOMAIN map_keys_to_tensors
    THEN Outcome("out_of_range", NoBundle, NoTensor, NoBundle)
    ELSE IF "points" \notin DOMAIN map_keys_to_tensors
    THEN Outcome("MissingAttribute", NoBundle, NoTensor, NoBundle)
    ELSE LET points == map_keys_to_tensors["points"] IN
         IF ~(Len(points.shape) = 2 /\ points.shape[2] = 3)
         THEN Outcome("ShapeMismatch", NoBundle, NoTensor, NoBundle)
         ELSE Outcome("none", NoBundle, NoTensor,
                      Bundle(points.device, map_keys_to_tensors))

\* ----------------------------------------------------------- TransformOps
\* Transform with the translation column added to the normals as well.
TransformShiftsNormals(self, transformation) ==
    IF transformation.shape # <<4, 4>>
    THEN Outcome("ShapeMismatch", self, transformation, NoBundle)
    ELSE IF transformation.device # self.device_
    THEN Outcome("DeviceMismatch", self, transformation, NoBundle)
    ELSE LET R == [i \in 1..3 |-> [j \in 1..3 |-> transformation.data[i][j]]]
             t == [i \in 1..3 |-> transformation.data[i][4]]
             shifted(rows) == [i \in 1..Len(rows) |-> VAdd(MatVec(R, rows[i]), t)]
             s1 == SetRows(self, "points", shifted(GetPoints(self).data))
             s2 == IF HasPointNormals(s1)
                   THEN SetRows(s1, "normals", shifted(GetPointNormals(s1).data))
                   ELSE s1
         IN  Outcome("none", s2, transformation, NoBundle)

Transform(self, transformation) ==
    IF transformation.shape # <<4, 4>>
    THEN Outcome("ShapeMismatch", self, transformation, NoBundle)
    ELSE IF transformation.device # self.device_
    THEN Outcome("DeviceMismatch", self, transformation, NoBundle)
    ELSE LET R == [i \in 1..3 |-> [j \in 1..3 |-> transformation.data[i][j]]]
             t == [i \in 1..3 |-> transformation.data[i][4]]
             points == GetPoints(self).data
             s1 == SetRows(self, "points",
                           [i \in 1..Len(points) |-> VAdd(MatVec(R, points[i]), t)])
             s2 == IF HasPointNormals(s1)
                   THEN LET normals == GetPointNormals(s1).data IN
                        SetRows(s1, "normals",
                                [i \in 1..Len(normals) |-> MatVec(R, normals[i])])
                   ELSE s1
         IN  Outcome("none", s2, transformation, NoBundle)

\* Translate that applies the vector as a delta whatever `relative` is.
TranslateAsDelta(self, translation, relative) ==
    IF translation.shape # <<3>>
    THEN Outcome("ShapeMismatch", self, translation, NoBundle)
    ELSE IF translation.device # self.device_
    THEN Outcome("DeviceMismatch", self, translation, NoBundle)
    ELSE LET points == GetPoints(self).data IN
         Outcome("none",
                 SetRows(self, "points",
                         [i \in 1..Len(points) |-> VAdd(points[i], translation.data)]),
                 translation, NoBundle)

\* `transform` is a copy of `translation` and shares its storage: the
\* in-place `transform -= GetCenter()` writes the caller's tensor.
Translate(self, translation, relative) ==
    IF translation.shape # <<3>>
    THEN Outcome("ShapeMismatch", self, translation, NoBundle)
    ELSE IF translation.device # self.device_
    THEN Outcome("DeviceMismatch", self, translation, NoBundle)
    ELSE LET transform == IF ~relative
                          THEN [translation EXCEPT
                                   !.data = VSub(translation.data, GetCenter(self).data)]
                          ELSE translation
             points == GetPoints(self).data
         IN  Outcome("none",
                     SetRows(self, "points",
                             [i \in 1..Len(points) |-> VAdd(points[i], transform.data)]),
                     transform, NoBundle)

\* `points` is a copy of the stored tensor and shares its storage: the
\* in-place Sub_, Mul_, Add_ change the bundle's points.
Scale(self, scale, center) ==
    IF center.shape # <<3>>
    THEN Outcome("ShapeMismatch", self, center, NoBundle)
    ELSE IF center.device # self.device_
    THEN Outcome("DeviceMismatch", self, center, NoBundle)
    ELSE LET points == GetPoints(self).data IN
         Outcome("none",
                 SetRows(self, "points",
                         [i \in 1..Len(points) |->
                             VAdd(VScale(VSub(points[i], center.data), scale),
                                  center.data)]),
                 center, NoBundle)

\* Lines 127-135 of Rotate: the points about the center, then the normals.
RotateRows(self, R, center) ==
    LET Rot == R.data
        points == GetPoints(self).data
        s1 == SetRows(self, "points",
                      [i \in 1..Len(points) |->
                          VAdd(MatVec(Rot, VSub(points[i], center.data)),
                               center.data)])
    IN  IF HasPointNormals(s1)
        THEN LET normals == GetPointNormals(s1).data IN
             SetRows(s1, "normals",
                     [i \in 1..Len(normals) |-> MatVec(Rot, normals[i])])
        ELSE s1

\* Rotate that asserts the center's shape and device after it has rotated.
RotateChecksCenterLate(self, R, center) ==
    IF R.shape # <<3, 3>>
    THEN Outcome("ShapeMismatch", self, R, NoBundle)
    ELSE IF R.device # self.device_
    THEN Outcome("DeviceMismatch", self, R, NoBundle)
    ELSE LET rotated == RotateRows(self, R, center) IN
         IF center.shape # <<3>>
         THEN Outcome("ShapeMismatch", rotated, R, NoBundle)
         ELSE IF center.device # self.device_
         THEN Outcome("DeviceMismatch", rotated, R, NoBundle)
         ELSE Outcome("none", rotated, R, NoBundle)

Rotate(self, R, center) ==
    IF R.shape # <<3, 3>>
    THEN Outcome("ShapeMismatch", self, R, NoBundle)
    ELSE IF R.device # self.device_
    THEN Outcome("DeviceMismatch", self, R, NoBundle)
    ELSE IF center.shape # <<3>>
    THEN Outcome("ShapeMismatch", self, R, NoBundle)
    ELSE IF center.device # self.device_
    THEN Outcome("DeviceMismatch", self, R, NoBundle)
    ELSE Outcome("none", RotateRows(self, R, center), R, NoBundle)

\* -------------------------------------------------------- VoxelDownSample
\* Tensor::To(Dtype::Int64) of one element: the conversion of a floating
\* value to an integer drops the fraction (rounds toward zero).  Of an
\* infinity or a NaN it is undefined: ub[c] is what the build yields for the
\* class c (1: +inf, -1: -inf, 0: NaN).
ToInt64(x, ub) ==
    IF IsFinite(x)
    THEN (IF x[1] >= 0 THEN x[1] \div x[2] ELSE -((-x[1]) \div x[2]))
    ELSE ub[x[1]]

\* points_voxeli: (GetPoints() / voxel_size).To(Int64), row by row.
PointsVoxeli(self, voxel_size, ub) ==
    LET points == GetPoints(self).data IN
    [i \in 1..Len(points) |->
        [k \in 1..3 |-> ToInt64(RDiv(points[i][k], voxel_size), ub)]]

\* Hashmap::Activate(keys, addrs, masks): the masks it may return.  Exactly
\* one row of every distinct key is marked; which one is not determined.
Activate(keys) ==
    {masks \in [1..Len(keys) -> BOOLEAN] :
        \A i \in 1..Len(keys) :
            Cardinality({j \in 1..Len(keys) : keys[j] = keys[i] /\ masks[j]}) = 1}

RECURSIVE Selected(_, _)
Selected(masks, n) ==
    IF n = 0 THEN <<>>
    ELSE IF masks[n] THEN Append(Selected(masks, n - 1), n)
    ELSE Selected(masks, n - 1)

\* Tensor::IndexGet({masks}): the rows whose mask is set, in row order.
IndexGet(rows, masks) ==
    LET idx == Selected(masks, Len(masks)) IN
    [k \in 1..Len(idx) |-> rows[idx[k]]]

\* The cell converted back without the product by voxel_size.
VoxelAnchorUnscaled(cell, voxel_size) == [k \in 1..3 |-> Q(cell[k])]

\* One row of points_voxeli.To(dtype of points) * voxel_size.
VoxelAnchor(cell, voxel_size) == [k \in 1..3 |-> RMul(Q(cell[k]), voxel_size)]

VoxelDownSample(self, voxel_size, ub, masks) ==
    LET points_voxeli == PointsVoxeli(self, voxel_size, ub)
        kept == IndexGet(points_voxeli, masks)
        points == [k \in 1..Len(kept) |-> VoxelAnchor(kept[k], voxel_size)]
        pcd_down_map ==
            [name \in DOMAIN self.point_attr_ |->
                IF name = "points"
                THEN Tensor(<<Len(points), 3>>, self.device_, points)
                ELSE LET point_attr == IndexGet(self.point_attr_[name].data, masks) IN
                     Tensor(<<Len(point_attr), 3>>, self.point_attr_[name].device,
                            point_attr)]
        made == PointCloudFromMap(pcd_down_map)
    IN  Outcome(made.err, self, NoTensor, made.ret)

\* ------------------------------------------------------------------ inputs
Host == "CPU:0"

PointSet ==
    { <<<<1, 10>>, Q(0), Q(0)>>, <<<<-1, 10>>, Q(0), Q(0)>>,
      <<<<-3, 2>>, <<1, 2>>, Q(5)>> }

AttrSets == { {"points"}, {"points", "normals", "colors"} }

\* Row i of the initial normals and colors: a unit axis, and a tag of the row.
NormalOf(i) == [k \in 1..3 |-> IF k = (i % 3) + 1 THEN Q(1) ELSE Q(0)]
ColorOf(i) == <<Q(i), Q(0), <<1, 2>>>>

InitialBundle(rows, names) ==
    Bundle(Host,
           [name \in names |->
               Tensor(<<Len(rows), 3>>, Host,
                      IF name = "points" THEN rows
                      ELSE IF name = "normals" THEN [i \in 1..Len(rows) |-> NormalOf(i)]
                      ELSE [i \in 1..Len(rows) |-> ColorOf(i)])])

QRows(m) == [i \in 1..Len(m) |-> [j \in 1..Len(m[i]) |-> Q(m[i][j])]]

\* Rotation by a quarter turn about z.
Rz == QRows(<< <<0, -1, 0>>, <<1, 0, 0>>, <<0, 0, 1>> >>)
\* The same rotation with translation (1, 2, 3), and a shear with a translation.
M_rigid == QRows(<< <<0, -1, 0, 1>>, <<1, 0, 0, 2>>, <<0, 0, 1, 3>>, <<0, 0, 0, 1>> >>)
M_shear == QRows(<< <<2, 0, 0, 0>>, <<0, 1, 1, -1>>, <<0, 0, 1, 0>>, <<0, 0, 0, 1>> >>)

TransformArgs ==
    { Tensor(<<4, 4>>, Host, M_rigid), Tensor(<<4, 4>>, Host, M_shear),
      Tensor(<<3, 3>>, Host, Rz), Tensor(<<4, 4>>, "CUDA:0", M_rigid) }

V_ok == Tensor(<<3>>, Host, Vec(1, 2, 3))
V_shape == Tensor(<<4>>, Host, <<Q(1), Q(2), Q(3), Q(1)>>)
V_device == Tensor(<<3>>, "CUDA:0", Vec(1, 2, 3))
V_other == Tensor(<<3>>, Host, <<<<-1, 2>>, Q(0), Q(1)>>)
\* Every good vector either way, the bad ones once.
TranslateCalls == ({V_ok, V_other} \X BOOLEAN) \cup {<<V_shape, FALSE>>, <<V_device, TRUE>>}
CenterArgs == { V_ok, V_shape, V_device }

RotationArgs ==
    { Tensor(<<3, 3>>, Host, Rz), Tensor(<<4, 4>>, Host, M_rigid),
      Tensor(<<3, 3>>, "CUDA:0", Rz) }

ScaleArgs == { Q(2), <<-1, 2>> }
ScaleCalls == (ScaleArgs \X {V_ok}) \cup ({Q(2)} \X CenterArgs)
\* Every rotation with the good center, the good rotation with every center.
RotateCalls == (RotationArgs \X {V_ok}) \cup ({Tensor(<<3, 3>>, Host, Rz)} \X CenterArgs)

VoxelSizes == { Q(1), <<1, 2>>, Q(-1), Q(0) }

\* What the conversion of +inf (1), -inf (-1) and NaN (0) to Int64 yields is
\* undefined; two builds: one that yields the least Int64 for all three, one
\* that saturates and yields zero for NaN (-9 and 9 stand for the least and
\* the greatest Int64).
UBChoices(voxel_size) ==
    IF voxel_size[1] = 0
    THEN { [c \in {-1, 0, 1} |-> -9], [c \in {-1, 0, 1} |-> 9 * c] }
    ELSE { [c \in {-1, 0, 1} |-> 0] }

\* The maps a caller builds from a bundle's attributes: any subset of them,
\* or all of them with a length-3 vector for "points".
ConstructMaps(self) ==
    { [name \in S |-> self.point_attr_[name]] : S \in SUBSET DOMAIN self.point_attr_ }
    \cup { [self.point_attr_ EXCEPT !["points"] = Tensor(<<3>>, Host, Vec(1, 2, 3))] }

\* ------------------------------------------------------------------- state
VARIABLES
    pcd,    \* the bundle the caller holds
    last,   \* the last call: its arguments, the bundle before it, its outcome
    nops    \* calls made

vars == <<pcd, last, nops>>

NoScalar == <<0, 0>>

Call(op, this, pre, args, scalar, relative, out, keys, masks, pre_voxel) ==
    [op |-> op, this |-> this, pre |-> pre, args |-> args, scalar |-> scalar,
     relative |-> relative, err |-> out.err, arg |-> out.arg, ret |-> out.ret,
     keys |-> keys, masks |-> masks, pre_voxel |-> pre_voxel]

Init ==
    /\ \E n \in 1..MaxN : \E rows \in [1..n -> PointSet] : \E names \in AttrSets :
           pcd = InitialBundle(rows, names)
    /\ last = Call("Init", "pcd", NoBundle, <<>>, NoScalar, FALSE,
                   Outcome("none", NoBundle, NoTensor, NoBundle), <<>>, <<>>, NoScalar)
    /\ nops = 0

\* A call on pcd that returns *this.
Mutate(op, args, scalar, relative, out) ==
    /\ nops < MaxOps
    /\ nops' = nops + 1
    /\ pcd' = out.self
    /\ last' = Call(op, "pcd", pcd, args, scalar, relative, out, <<>>, <<>>, NoScalar)

CallTransform ==
    \E transformation \in TransformArgs :
        Mutate("Transform", <<transformation>>, NoScalar, FALSE,
               Transform(pcd, transformation))

CallTranslate ==
    \E c \in TranslateCalls :
        Mutate("Translate", <<c[1]>>, NoScalar, c[2], Translate(pcd, c[1], c[2]))

\* The caller passes the array of its previous Translate call once more.
CallTranslateAgain ==
    /\ last.op = "Translate"
    /\ last.err = "none"
    /\ \E relative \in BOOLEAN :
           Mutate("Translate", <<last.arg>>, NoScalar, relative,
                  Translate(pcd, last.arg, relative))

CallScale ==
    \E c \in ScaleCalls :
        Mutate("Scale", <<c[2]>>, c[1], FALSE, Scale(pcd, c[1], c[2]))

CallRotate ==
    \E c \in RotateCalls :
        Mutate("Rotate", <<c[1], c[2]>>, NoScalar, FALSE, Rotate(pcd, c[1], c[2]))

\* VoxelDownSample on self, which returns a new bundle and leaves self alone.
DownSample(this, self, pre_voxel) ==
    /\ nops < MaxOps
    /\ nops' = nops + 1
    /\ pcd' = pcd
    /\ \E voxel_size \in VoxelSizes : \E ub \in UBChoices(voxel_size) :
           LET keys == PointsVoxeli(self, voxel_size, ub) IN
           \E masks \in Activate(keys) :
               last' = Call("VoxelDownSample", this, self, <<>>, voxel_size, FALSE,
                            VoxelDownSample(self, voxel_size, ub, masks),
                            keys, masks, pre_voxel)

CallVoxelDownSample == DownSample("pcd", pcd, NoScalar)

\* VoxelDownSample on the bundle the last call returned.
CallVoxelDownSampleOnResult ==
    /\ last.ret # NoBundle
    /\ DownSample("ret", last.ret,
                  IF last.op = "VoxelDownSample" THEN last.scalar ELSE NoScalar)

CallConstruct ==
    /\ nops < MaxOps
    /\ nops' = nops + 1
    /\ pcd' = pcd
    /\ \E map_keys_to_tensors \in ConstructMaps(pcd) :
           last' = Call("Construct", "map", Bundle("map", map_keys_to_tensors), <<>>,
                        NoScalar, FALSE, PointCloudFromMap(map_keys_to_tensors),
                        <<>>, <<>>, NoScalar)

Next ==
    \/ CallTransform
    \/ CallTranslate
    \/ CallTranslateAgain
    \/ CallScale
    \/ CallRotate
    \/ CallVoxelDownSample
    \/ CallVoxelDownSampleOnResult
    \/ CallConstruct

Spec == Init /\ [][Next]_vars

\* ------------------------------------------------------------- properties
Returned(op) == last.op = op /\ last.err = "none"
Positive(a) == a[2] > 0 /\ a[1] > 0
Range(f) == {f[i] : i \in DOMAIN f}
RowsOf(bundle, name) == bundle.point_attr_[name].data

\* Row i of R times p, coordinate by coordinate.
Dot(row, p) == RAdd(RAdd(RMul(row[1], p[1]), RMul(row[2], p[2])), RMul(row[3], p[3]))

\* The cell the specification gives a point: the floor of every coordinate
\* over the voxel size; and the anchor of a cell.
FloorCell(p, voxel_size) == [k \in 1..3 |-> Floor(RDiv(p[k], voxel_size))]
AnchorOf(cell, voxel_size) == [k \in 1..3 |-> RMul(Q(cell[k]), voxel_size)]

\* C1: VoxelDownSample with a positive voxel size gives every coordinate of
\* every point the cell index floor(coordinate / voxel_size), the largest
\* integer not above the quotient, for negative coordinates as well.
C1_FloorQuantization ==
    (last.op = "VoxelDownSample" /\ Positive(last.scalar)) =>
        \A i \in 1..Len(last.keys) : \A k \in 1..3 :
            last.keys[i][k] = Floor(RDiv(RowsOf(last.pre, "points")[i][k], last.scalar))

\* C2: VoxelDownSample with a positive voxel size returns as many points as
\* the input has distinct (floor) cells, at most N, one per cell, each the
\* anchor of its cell, whichever rows the hash insert marked.
C2_OnePointPerCell ==
    (Returned("VoxelDownSample") /\ Positive(last.scalar)) =>
        LET input == RowsOf(last.pre, "points")
            output == RowsOf(last.ret, "points")
            cells == {FloorCell(input[i], last.scalar) : i \in 1..Len(input)}
        IN  /\ Len(output) = Cardinality(cells)
            /\ Len(output) <= Len(input)
            /\ Range(output) = {AnchorOf(c, last.scalar) : c \in cells}

\* C3: the bundle VoxelDownSample returns has the attribute names of the
\* input, every attribute with the row count of the output points, and every
\* output row k comes from one input row i: each attribute other than
\* "points" holds the input's row i, and the point is the anchor of the
\* (floor) cell of input point i.
C3_SameRepresentative ==
    (Returned("VoxelDownSample") /\ Positive(last.scalar)) =>
        LET names == DOMAIN last.pre.point_attr_
            n == Len(RowsOf(last.ret, "points"))
        IN  /\ DOMAIN last.ret.point_attr_ = names
            /\ \A name \in names : Len(RowsOf(last.ret, name)) = n
            /\ \A k \in 1..n : \E i \in 1..Len(RowsOf(last.pre, "points")) :
                   /\ \A name \in names \ {"points"} :
                          RowsOf(last.ret, name)[k] = RowsOf(last.pre, name)[i]
                   /\ RowsOf(last.ret, "points")[k] =
                          AnchorOf(FloorCell(RowsOf(last.pre, "points")[i], last.scalar),
                                   last.scalar)

\* C4: VoxelDownSample with a zero or negative voxel size fails with
\* InvalidArgument and returns no bundle.
C4_RejectsNonPositive ==
    (last.op = "VoxelDownSample" /\ IsFinite(last.scalar) /\ last.scalar[1] <= 0) =>
        (last.err = "InvalidArgument" /\ last.ret = NoBundle)

\* The shapes the tensor arguments of a call must have, in argument order.
ExpectedShapes(op) ==
    IF op = "Transform" THEN << <<4, 4>> >>
    ELSE IF op = "Rotate" THEN << <<3, 3>>, <<3>> >>
    ELSE << <<3>> >>
TransformOps == {"Transform", "Translate", "Scale", "Rotate"}
BadArgument(i) ==
    \/ last.args[i].shape # ExpectedShapes(last.op)[i]
    \/ last.args[i].device # last.pre.device_

\* C5: a Transform, Translate, Scale or Rotate call with a tensor argument of
\* the wrong shape or device reports ShapeMismatch or DeviceMismatch and
\* leaves every attribute of the bundle as it was; for Rotate this holds for
\* a bad center given with a valid R too.
C5_AtomicFailure ==
    (last.op \in TransformOps /\ \E i \in 1..Len(last.args) : BadArgument(i)) =>
        (last.err \in {"ShapeMismatch", "DeviceMismatch"} /\ pcd = last.pre)

C5_Witness ==
    /\ last.op = "Rotate"
    /\ ~BadArgument(1)
    /\ BadArgument(2)
    /\ last.err \in {"ShapeMismatch", "DeviceMismatch"}
    /\ HasPointNormals(pcd)

\* C6: after Translate(v, relative = false) on a bundle with at least one
\* point the centroid of the points is v, every point has moved by
\* v - old centroid and the point count is unchanged; with relative = true
\* every point has moved by v.
C6_TranslateCentroid ==
    Returned("Translate") =>
        LET v == last.args[1].data
            before == RowsOf(last.pre, "points")
            after == RowsOf(pcd, "points")
            n == Len(before)
            old == [k \in 1..3 |-> RDiv(VSum(before, n)[k], Q(n))]
            new == [k \in 1..3 |-> RDiv(VSum(after, n)[k], Q(n))]
        IN  /\ Len(after) = n
            /\ ~last.relative =>
                   /\ new = v
                   /\ \A i \in 1..n : \A k \in 1..3 :
                          after[i][k] = RAdd(before[i][k], RSub(v[k], old[k]))
            /\ last.relative =>
                   \A i \in 1..n : \A k \in 1..3 : after[i][k] = RAdd(before[i][k], v[k])

C6_Witness ==
    /\ Returned("Translate")
    /\ ~last.relative
    /\ Len(RowsOf(pcd, "points")) >= 2
    /\ RowsOf(last.pre, "points")[1] # RowsOf(last.pre, "points")[2]
    /\ GetCenter(last.pre).data # last.args[1].data
    /\ GetCenter(pcd).data = last.args[1].data

\* C7: constructing a bundle from a map with no "points" entry fails with
\* MissingAttribute (the "points attribute must be specified" report) and
\* yields no bundle.
C7_MissingPointsReported ==
    (last.op = "Construct" /\ "points" \notin DOMAIN last.pre.point_attr_) =>
        (last.err = "MissingAttribute" /\ last.ret = NoBundle)

\* C8: Transform(M) with M a 4x4 matrix on the bundle's device, R its upper
\* left 3x3 block and t its last column, replaces every point p by R p + t
\* and, when "normals" is present, every normal n by R n; the attribute
\* names, the row count and all other attributes stay, and the call returns
\* the bundle itself.
C8_TransformPointsAndNormals ==
    Returned("Transform") =>
        LET M == last.args[1].data
            names == DOMAIN last.pre.point_attr_
            n == Len(RowsOf(last.pre, "points"))
        IN  /\ DOMAIN pcd.point_attr_ = names
            /\ Len(RowsOf(pcd, "points")) = n
            /\ \A i \in 1..n : \A k \in 1..3 :
                   RowsOf(pcd, "points")[i][k] =
                       RAdd(Dot(M[k], RowsOf(last.pre, "points")[i]), M[k][4])
            /\ "normals" \in names =>
                   /\ Len(RowsOf(pcd, "normals")) = Len(RowsOf(last.pre, "normals"))
                   /\ \A i \in 1..Len(RowsOf(last.pre, "normals")) : \A k \in 1..3 :
                          RowsOf(pcd, "normals")[i][k] =
                              Dot(M[k], RowsOf(last.pre, "normals")[i])
            /\ \A name \in names \ {"points", "normals"} :
                   pcd.point_attr_[name] = last.pre.point_attr_[name]
            /\ pcd.device_ = last.pre.device_
            /\ last.ret = NoBundle

C8_Witness ==
    /\ Returned("Transform")
    /\ last.args[1].data = M_rigid
    /\ {"normals", "colors"} \subseteq DOMAIN pcd.point_attr_
    /\ Len(RowsOf(pcd, "points")) >= 2
    /\ RowsOf(pcd, "points") # RowsOf(last.pre, "points")
    /\ RowsOf(pcd, "normals") # RowsOf(last.pre, "normals")

C10_ArgumentUnchanged ==
    Returned("Translate") => last.arg = last.args[1]

\* With the cell the code computes (last.keys, the truncated quotient) in
\* place of the floor cell, the rest of C2 and C3 holds: one output point per
\* distinct key, each the key times the voxel size, and every output row
\* taken from one input row in all attributes.
OnePointPerKey ==
    Returned("VoxelDownSample") =>
        LET output == RowsOf(last.ret, "points") IN
        /\ Len(output) = Cardinality(Range(last.keys))
        /\ Range(output) = {AnchorOf(c, last.scalar) : c \in Range(last.keys)}

SameRepresentativePerKey ==
    Returned("VoxelDownSample") =>
        LET names == DOMAIN last.pre.point_attr_
            n == Len(RowsOf(last.ret, "points"))
        IN  /\ DOMAIN last.ret.point_attr_ = names
            /\ \A name \in names : Len(RowsOf(last.ret, name)) = n
            /\ \A k \in 1..n : \E i \in 1..Len(last.keys) :
                   /\ \A name \in names \ {"points"} :
                          RowsOf(last.ret, name)[k] = RowsOf(last.pre, name)[i]
                   /\ RowsOf(last.ret, "points")[k] = AnchorOf(last.keys[i], last.scalar)

====
